---- MODULE Spec2Model ----
(***************************************************************************)
(* Model of compiler/rustc_expand/src/proc_macro.rs: the channel pipe      *)
(* (CrossbeamMessagePipe), the execution strategy selector and the three   *)
(* proc-macro drivers (BangProcMacro, AttrProcMacro, ProcMacroDerive).     *)
(***************************************************************************)
EXTENDS Naturals, Sequences, FiniteSets, TLC

(* ------------------------------ bounds --------------------------------- *)
\* most values one endpoint sends in a run of the pipe specification
MaxSends == 2
\* number of distinct values carried by the pipe in the pipe specification
MaxVal == 2
\* most driver calls (expand) issued in one compilation session
MaxCalls == 2
\* most top-level elements in a token stream returned by an extension
MaxLen == 2

(* --------------------------- Option<T> --------------------------------- *)
None == <<>>
Some(v) == <<v>>

(* ------------------------------ state ---------------------------------- *)
VARIABLES
  chan,       \* the two unbounded crossbeam queues, by channel number
  live,       \* which endpoints of the pipe pair have not been dropped
  waiting,    \* endpoints whose owner is blocked inside recv()
  faulted,    \* endpoints whose owner panicked in send() (unwrap of Err)
  sent,       \* history: values passed to send() on each endpoint, in order
  rcvd,       \* history: values returned by recv() on each endpoint, in order
  lastRecv,   \* result of the latest recv() on each endpoint, <<>> before any
  proc_macro_cross_thread,  \* ecx.sess.opts.debugging_opts.proc_macro_cross_thread
  pc,         \* position of the compiler thread inside expand
  call,       \* the driver call in progress: its arguments and its extension
  callNo,     \* number of driver calls issued so far
  worker,     \* the cross-thread worker: status, job and queries left
  spawned,    \* number of worker threads spawned so far
  pipes,      \* number of pipe pairs created so far
  err_count,  \* ecx.sess.parse_sess.span_diagnostic.err_count()
  diags,      \* diagnostics emitted since the call in progress began
  result,     \* what client.run returned
  is_stmt,    \* ProcMacroDerive::expand: local is_stmt
  error_count_before,  \* ProcMacroDerive::expand: local error_count_before
  parser,     \* ProcMacroDerive::expand: local parser (stream and position)
  items,      \* ProcMacroDerive::expand: local items
  output,     \* what expand returned
  returned    \* history: call numbers in the order the calls returned

pipeVars == <<chan, live, waiting, faulted, sent, rcvd, lastRecv>>
ghostVars == <<waiting, faulted, sent, rcvd, lastRecv>>
driverVars == <<proc_macro_cross_thread, pc, call, callNo, worker, spawned,
                pipes, err_count, diags, result, is_stmt, error_count_before,
                parser, items, output, returned>>
vars == <<chan, live, waiting, faulted, sent, rcvd, lastRecv,
          proc_macro_cross_thread, pc, call, callNo, worker, spawned,
          pipes, err_count, diags, result, is_stmt, error_count_before,
          parser, items, output, returned>>

Endpoints == {"A", "B"}
Channels == {1, 2}
Values == 1..MaxVal

(* ------------------------ CrossbeamMessagePipe ------------------------- *)
\* new(): (tx1, rx1) is channel 1, (tx2, rx2) is channel 2; the first
\* endpoint holds tx1 and rx2, the second tx2 and rx1.
new_same_channel == [A |-> [tx |-> 1, rx |-> 1], B |-> [tx |-> 2, rx |-> 2]]
new == [A |-> [tx |-> 1, rx |-> 2], B |-> [tx |-> 2, rx |-> 1]]

Peer(e) == IF e = "A" THEN "B" ELSE "A"

\* crossbeam_channel: a channel is disconnected for its receiver when every
\* Sender is dropped, and for its sender when every Receiver is dropped.
\* Endpoints are never cloned, so each half has one owner.
SenderLive(lv, c) == \E e \in Endpoints : lv[e] /\ new[e].tx = c
ReceiverLive(lv, c) == \E e \in Endpoints : lv[e] /\ new[e].rx = c

\* self.tx.send(value): Ok(()) after the enqueue, Err when disconnected.
ChanSend(q, v) == Append(q, v)

\* send(): self.tx.send(value).unwrap() panics on Err.
SendOkAlways(lv, e) == TRUE
SendOk(lv, e) == ReceiverLive(lv, new[e].tx)
send_to_own_rx(ch, e, v) == [ch EXCEPT ![new[e].rx] = ChanSend(@, v)]
send(ch, e, v) == [ch EXCEPT ![new[e].tx] = ChanSend(@, v)]

\* self.rx.recv() blocks while the queue is empty and a sender is live.
RecvReadyNonBlocking(ch, lv, e) == TRUE
RecvReadyOnlyValue(ch, lv, e) == ch[new[e].rx] # <<>>
RecvReady(ch, lv, e) == ch[new[e].rx] # <<>> \/ ~SenderLive(lv, new[e].rx)

\* recv(): self.rx.recv().ok() -- Some(head) or None on disconnection.
recv(ch, e) == IF ch[new[e].rx] # <<>> THEN Some(Head(ch[new[e].rx])) ELSE None
RecvPop(ch, e) ==
  IF ch[new[e].rx] # <<>> THEN [ch EXCEPT ![new[e].rx] = Tail(@)] ELSE ch

(* --------------------------- data of a call ---------------------------- *)
\* A token stream is a sequence of top-level elements, each described by
\* what parse_item makes of it: "ok" parses into an item, "rec" parses into
\* an item after the parser recovered from (and reported) an error, "bad"
\* is a hard parse error, "non" is a token that starts no item.
Elems == {"ok", "rec", "bad", "non"}
Streams == UNION {[1..n -> Elems] : n \in 0..MaxLen}
InputStreams == {<<>>, <<"ok">>}

\* Every call site has its own span; DUMMY_SP is none of them.
DUMMY_SP == 0
SpanOf(n) == n

\* The message of a panic payload is a string (a sequence of characters)
\* or absent: PanicMessage::as_str().
PanicMsgs == {None, Some(<<>>), Some(<<"x">>)}

\* What the extension does in a call: the errors it reports through the
\* capability server, then the stream it returns or the panic it raises.
ExtResults ==
  {[ok |-> TRUE, stream |-> s] : s \in Streams}
    \cup {[ok |-> FALSE, msg |-> m] : m \in PanicMsgs}
ExtBehaviours == [nErrs : 0..1, res : ExtResults]

\* Annotatable: Item, Stmt (an item statement or not), any other variant.
\* hack: pretty_printing_compatibility_hack(&item, ..) holds of it.
Annotatables ==
  {[variant |-> "Item", is_item |-> TRUE, hack |-> h] : h \in BOOLEAN}
    \cup {[variant |-> "Stmt", is_item |-> i, hack |-> h] : i, h \in BOOLEAN}
    \cup {[variant |-> "Other", is_item |-> FALSE, hack |-> FALSE]}

NoCall == [no |-> 0, kind |-> "none"]
NoWorker == [status |-> "none", no |-> 0, left |-> 0, sentNo |-> 0]
NoParser == [stream |-> <<>>, pos |-> 1]
NoOutput == [tag |-> "none"]

(* ----------------------------- diagnostics ----------------------------- *)
\* format!("message: {}", s)
format_no_prefix(s) == s
format(s) == <<"m", "e", "s", "s", "a", "g", "e", ":", " ">> \o s

\* let mut err = ecx.struct_span_err(span, msg);
\* if let Some(s) = e.as_str() { err.help(&format!("message: {}", s)); }
PanicDiag(span, msg, e) ==
  [origin |-> "driver", span |-> span, msg |-> msg,
   help |-> IF e.msg # None THEN Some(format(e.msg[1])) ELSE None]

PanicText(kind) ==
  CASE kind = "Bang" -> "proc macro panicked"
    [] kind = "Attr" -> "custom attribute panicked"
    [] kind = "Derive" -> "proc-macro derive panicked"

UnparseableDiag(span) ==
  [origin |-> "driver", span |-> span,
   msg |-> "proc-macro derive produced unparseable tokens", help |-> None]

\* a diagnostic of the parser (parse_item), emitted by it or by err.emit()
ParseDiag ==
  [origin |-> "parser", span |-> DUMMY_SP, msg |-> "parse error", help |-> None]

\* an error the extension reports through the capability server
ServerDiag ==
  [origin |-> "server", span |-> DUMMY_SP, msg |-> "extension error", help |-> None]

ServerDiags(n) == [i \in 1..n |-> ServerDiag]

(* --------------------------- exec_strategy ----------------------------- *)
\* MaybeCrossThread::new(ecx.sess.opts.debugging_opts.proc_macro_cross_thread)
exec_strategy_same_thread == [cross_thread |-> FALSE]
exec_strategy == [cross_thread |-> proc_macro_cross_thread]

(* ------------------------------ parse_item ----------------------------- *)
\* parser.parse_item(ForceCollect::No) at the parser's position:
\* Ok(None) at the end of the stream or before a token that starts no item,
\* Ok(Some(item)) (the item is named by its position), or Err(diagnostic).
parse_item(p) ==
  IF p.pos > Len(p.stream) \/ p.stream[p.pos] = "non"
    THEN [tag |-> "OkNone", errs |-> 0]
  ELSE IF p.stream[p.pos] = "bad"
    THEN [tag |-> "Err", errs |-> 0]
  ELSE [tag |-> "OkSome", item |-> p.pos,
        errs |-> IF p.stream[p.pos] = "rec" THEN 1 ELSE 0]

\* items.push(Annotatable::Stmt(P(ecx.stmt_item(span, item)))) or
\* items.push(Annotatable::Item(item))
WrapAlwaysStmt(stmt, span, item) ==
  [variant |-> "Stmt", span |-> span, item |-> item]
WrapDummySpan(stmt, span, item) ==
  IF stmt THEN [variant |-> "Stmt", span |-> DUMMY_SP, item |-> item]
          ELSE [variant |-> "Item", item |-> item]
Wrap(stmt, span, item) ==
  IF stmt THEN [variant |-> "Stmt", span |-> span, item |-> item]
          ELSE [variant |-> "Item", item |-> item]

(* ------------------------------ the drivers ---------------------------- *)
DriverIdle ==
  /\ pc = "idle"
  /\ call = NoCall
  /\ callNo = 0
  /\ worker = NoWorker
  /\ spawned = 0
  /\ pipes = 0
  /\ err_count = 0
  /\ diags = <<>>
  /\ result = None
  /\ is_stmt = FALSE
  /\ error_count_before = 0
  /\ parser = NoParser
  /\ items = <<>>
  /\ output = NoOutput
  /\ returned = <<>>

Init ==
  /\ chan = [c \in Channels |-> <<>>]
  /\ live = [e \in Endpoints |-> FALSE]
  /\ waiting = [e \in Endpoints |-> FALSE]
  /\ faulted = [e \in Endpoints |-> FALSE]
  /\ sent = [e \in Endpoints |-> <<>>]
  /\ rcvd = [e \in Endpoints |-> <<>>]
  /\ lastRecv = [e \in Endpoints |-> <<>>]
  /\ proc_macro_cross_thread \in BOOLEAN
  /\ DriverIdle

\* BangProcMacro::expand, up to the call of client.run
BangBegin ==
  /\ pc = "idle" /\ callNo < MaxCalls
  /\ callNo' = callNo + 1
  /\ \E input \in InputStreams, ext \in ExtBehaviours :
       call' = [no |-> callNo + 1, kind |-> "Bang",
                span |-> SpanOf(callNo + 1), args |-> <<input>>, ext |-> ext]
  /\ pc' = "invoke"
  /\ UNCHANGED <<pipeVars, proc_macro_cross_thread, worker, spawned, pipes,
                 err_count, diags, result, is_stmt, error_count_before,
                 parser, items, output, returned>>

\* AttrProcMacro::expand, up to the call of client.run
AttrBegin ==
  /\ pc = "idle" /\ callNo < MaxCalls
  /\ callNo' = callNo + 1
  /\ \E annotation \in InputStreams, annotated \in InputStreams,
        ext \in ExtBehaviours :
       call' = [no |-> callNo + 1, kind |-> "Attr",
                span |-> SpanOf(callNo + 1),
                args |-> <<annotation, annotated>>, ext |-> ext]
  /\ pc' = "invoke"
  /\ UNCHANGED <<pipeVars, proc_macro_cross_thread, worker, spawned, pipes,
                 err_count, diags, result, is_stmt, error_count_before,
                 parser, items, output, returned>>

\* ProcMacroDerive::expand, up to the call of client.run: the match on the
\* Annotatable (assert!(stmt.is_item()) and unreachable!() panic) and the
\* tokens of the item.
AcceptedAnyStmt(item) == item.variant \in {"Item", "Stmt"}
Accepted(item) ==
  item.variant = "Item" \/ (item.variant = "Stmt" /\ item.is_item)

Nonterminal(item) == IF item.variant = "Item" THEN "NtItem" ELSE "NtStmt"

DeriveInput(item) ==
  IF item.hack THEN [interpolated |-> TRUE, nt |-> Nonterminal(item)]
               ELSE [interpolated |-> FALSE, nt |-> Nonterminal(item)]

DeriveBegin ==
  /\ pc = "idle" /\ callNo < MaxCalls
  /\ callNo' = callNo + 1
  /\ \E item \in Annotatables, ext \in ExtBehaviours :
       /\ is_stmt' = (item.variant = "Stmt")
       /\ IF Accepted(item)
            THEN /\ call' = [no |-> callNo + 1, kind |-> "Derive",
                             span |-> SpanOf(callNo + 1),
                             item |-> item.variant,
                             is_item |-> item.is_item,
                             args |-> <<DeriveInput(item)>>, ext |-> ext]
                 /\ pc' = "invoke"
            ELSE \* assert!(stmt.is_item()) or unreachable!() panics
                 /\ call' = [no |-> callNo + 1, kind |-> "Derive",
                             span |-> SpanOf(callNo + 1),
                             item |-> item.variant,
                             is_item |-> item.is_item, args |-> <<>>,
                             ext |-> ext]
                 /\ pc' = "aborted"
  /\ UNCHANGED <<pipeVars, proc_macro_cross_thread, worker, spawned, pipes,
                 err_count, diags, result, error_count_before,
                 parser, items, output, returned>>

(* ------------------------ client.run, same thread ---------------------- *)
\* The arguments are moved into the call. The extension runs inline: its
\* server errors are recorded, then its stream or its caught panic is the
\* result.
RunSameThread ==
  /\ pc = "invoke" /\ ~exec_strategy.cross_thread
  /\ diags' = diags \o ServerDiags(call.ext.nErrs)
  /\ err_count' = err_count + call.ext.nErrs
  /\ result' = call.ext.res
  /\ call' = [call EXCEPT !.args = <<>>]
  /\ pc' = "returned"
  /\ UNCHANGED <<pipeVars, proc_macro_cross_thread, callNo, worker,
                 spawned, pipes, is_stmt, error_count_before, parser, items,
                 output, returned>>

(* ------------------------ client.run, cross thread --------------------- *)
\* The worker and its pipe pair are created by the first cross-thread call.
SpawnNeeded(w) == w.status = "none"

\* The caller holds endpoint A, the worker endpoint B.
RunCrossSend ==
  /\ pc = "invoke" /\ exec_strategy.cross_thread
  /\ LET fresh == SpawnNeeded(worker)
         lv == IF fresh THEN [e \in Endpoints |-> TRUE] ELSE live
         ch == IF fresh THEN [c \in Channels |-> <<>>] ELSE chan
     IN /\ spawned' = IF fresh THEN spawned + 1 ELSE spawned
        /\ pipes' = IF fresh THEN pipes + 1 ELSE pipes
        /\ worker' = IF fresh THEN [NoWorker EXCEPT !.status = "idle"] ELSE worker
        /\ live' = lv
        /\ IF SendOk(lv, "A")
             THEN /\ chan' = send(ch, "A", [type |-> "call", no |-> call.no,
                                            args |-> call.args])
                  /\ pc' = "wait"
             ELSE /\ chan' = ch
                  /\ pc' = "aborted"
  /\ call' = [call EXCEPT !.args = <<>>]
  /\ UNCHANGED <<ghostVars, proc_macro_cross_thread, callNo, err_count,
                 diags, result, is_stmt, error_count_before, parser, items,
                 output, returned>>

WorkerTake ==
  /\ worker.status = "idle"
  /\ RecvReady(chan, live, "B")
  /\ recv(chan, "B") # None
  /\ worker' = [worker EXCEPT !.status = "running",
                              !.no = recv(chan, "B")[1].no,
                              !.left = call.ext.nErrs]
  /\ chan' = RecvPop(chan, "B")
  /\ UNCHANGED <<live, ghostVars, proc_macro_cross_thread, pc, call, callNo,
                 spawned, pipes, err_count, diags, result, is_stmt,
                 error_count_before, parser, items, output, returned>>

\* The extension reports an error: the request goes to the caller's server.
WorkerQuery ==
  /\ worker.status = "running" /\ worker.left > 0
  /\ SendOk(live, "B")
  /\ chan' = send(chan, "B", [type |-> "query", no |-> worker.no])
  /\ worker' = [worker EXCEPT !.status = "query"]
  /\ UNCHANGED <<live, ghostVars, proc_macro_cross_thread, pc, call, callNo,
                 spawned, pipes, err_count, diags, result, is_stmt,
                 error_count_before, parser, items, output, returned>>

WorkerResume ==
  /\ worker.status = "query"
  /\ RecvReady(chan, live, "B")
  /\ recv(chan, "B") # None
  /\ worker' = [worker EXCEPT !.status = "running", !.left = @ - 1]
  /\ chan' = RecvPop(chan, "B")
  /\ UNCHANGED <<live, ghostVars, proc_macro_cross_thread, pc, call, callNo,
                 spawned, pipes, err_count, diags, result, is_stmt,
                 error_count_before, parser, items, output, returned>>

\* The extension returned or its panic was caught: the result goes back.
WorkerFinish ==
  /\ worker.status = "running" /\ worker.left = 0
  /\ SendOk(live, "B")
  /\ chan' = send(chan, "B", [type |-> "result", no |-> worker.no,
                              res |-> call.ext.res])
  /\ worker' = [worker EXCEPT !.status = "idle", !.sentNo = worker.no]
  /\ UNCHANGED <<live, ghostVars, proc_macro_cross_thread, pc, call, callNo,
                 spawned, pipes, err_count, diags, result, is_stmt,
                 error_count_before, parser, items, output, returned>>

\* Bridge fault: the worker's endpoint is dropped.
WorkerDies ==
  /\ worker.status \in {"idle", "running", "query"}
  /\ live' = [live EXCEPT !["B"] = FALSE]
  /\ worker' = [worker EXCEPT !.status = "dead"]
  /\ UNCHANGED <<chan, ghostVars, proc_macro_cross_thread, pc, call, callNo,
                 spawned, pipes, err_count, diags, result, is_stmt,
                 error_count_before, parser, items, output, returned>>

\* The caller, blocked in recv(), serves a request of the extension.
CallerDispatch ==
  /\ pc = "wait"
  /\ RecvReady(chan, live, "A")
  /\ recv(chan, "A") # None
  /\ recv(chan, "A")[1].type = "query"
  /\ diags' = Append(diags, ServerDiag)
  /\ err_count' = err_count + 1
  /\ IF SendOk(live, "A")
       THEN /\ chan' = send(RecvPop(chan, "A"), "A",
                            [type |-> "reply", no |-> call.no])
            /\ pc' = "wait"
       ELSE /\ chan' = RecvPop(chan, "A")
            /\ pc' = "aborted"
  /\ UNCHANGED <<live, ghostVars, proc_macro_cross_thread, call, callNo,
                 worker, spawned, pipes, result, is_stmt, error_count_before,
                 parser, items, output, returned>>

CallerRecvResult ==
  /\ pc = "wait"
  /\ RecvReady(chan, live, "A")
  /\ recv(chan, "A") # None
  /\ recv(chan, "A")[1].type = "result"
  /\ result' = recv(chan, "A")[1].res
  /\ chan' = RecvPop(chan, "A")
  /\ pc' = "returned"
  /\ UNCHANGED <<live, ghostVars, proc_macro_cross_thread, call, callNo,
                 worker, spawned, pipes, err_count, diags, is_stmt,
                 error_count_before, parser, items, output, returned>>

\* recv() returned None: the call ends as a panic without a message.
CallerRecvNone ==
  /\ pc = "wait"
  /\ RecvReady(chan, live, "A")
  /\ recv(chan, "A") = None
  /\ result' = [ok |-> FALSE, msg |-> None]
  /\ pc' = "returned"
  /\ UNCHANGED <<pipeVars, proc_macro_cross_thread, call, callNo, worker,
                 spawned, pipes, err_count, diags, is_stmt,
                 error_count_before, parser, items, output, returned>>

(* ------------------------- after client.run ---------------------------- *)
\* .map_err(|e| { ...; err.emit(); ErrorReported })
map_err_empty_stream(res, span, text) ==
  IF res.ok THEN [output |-> [tag |-> "Ok", stream |-> <<>>], diags |-> <<>>]
            ELSE [output |-> [tag |-> "Err"],
                  diags |-> <<PanicDiag(span, text, res)>>]
map_err(res, span, text) ==
  IF res.ok THEN [output |-> [tag |-> "Ok", stream |-> res.stream],
                  diags |-> <<>>]
            ELSE [output |-> [tag |-> "Err"],
                  diags |-> <<PanicDiag(span, text, res)>>]

BangReturn ==
  /\ pc = "returned" /\ call.kind = "Bang"
  /\ LET r == map_err(result, call.span, PanicText("Bang"))
     IN /\ output' = r.output
        /\ diags' = diags \o r.diags
        /\ err_count' = err_count + Len(r.diags)
  /\ pc' = "done"
  /\ UNCHANGED <<pipeVars, proc_macro_cross_thread, call, callNo, worker,
                 spawned, pipes, result, is_stmt, error_count_before, parser,
                 items, returned>>

AttrReturn ==
  /\ pc = "returned" /\ call.kind = "Attr"
  /\ LET r == map_err(result, call.span, PanicText("Attr"))
     IN /\ output' = r.output
        /\ diags' = diags \o r.diags
        /\ err_count' = err_count + Len(r.diags)
  /\ pc' = "done"
  /\ UNCHANGED <<pipeVars, proc_macro_cross_thread, call, callNo, worker,
                 spawned, pipes, result, is_stmt, error_count_before, parser,
                 items, returned>>

\* ExpandResult::Ready(..), the one variant expand returns (never Retry)
Retry(its) == [tag |-> "Retry", items |-> its]
Ready(its) == [tag |-> "Ready", items |-> its]

\* let error_count_before = ..err_count(): the count when client.run has
\* returned; d holds the diagnostics of the call so far, all of them errors.
SnapshotBeforeCall(count, d) == count - Len(d)
SnapshotCount(count, d) == count

\* err.emit() of an error diagnostic raises the handler's error count
emit_not_counted(count) == count
emit_count(count) == count + 1

\* ..err_count() > error_count_before
ErrorsEmittedOrEqual(count, before) == count >= before
ErrorsEmitted(count, before) == count > before

\* match self.client.run(..) { Ok(stream) => stream, Err(e) => {..} } and,
\* on Ok, the locals set before the loop.
DeriveReturn ==
  /\ pc = "returned" /\ call.kind = "Derive"
  /\ IF result.ok
       THEN /\ error_count_before' = SnapshotCount(err_count, diags)
            /\ parser' = [stream |-> result.stream, pos |-> 1]
            /\ items' = <<>>
            /\ pc' = "parsing"
            /\ UNCHANGED <<diags, err_count, output>>
       ELSE /\ diags' = Append(diags,
                          PanicDiag(call.span, PanicText("Derive"), result))
            /\ err_count' = err_count + 1
            /\ output' = Ready(<<>>)
            /\ pc' = "done"
            /\ UNCHANGED <<error_count_before, parser, items>>
  /\ UNCHANGED <<pipeVars, proc_macro_cross_thread, call, callNo, worker,
                 spawned, pipes, result, is_stmt, returned>>

\* One turn of the loop with Ok(Some(item)).
DeriveParseItem ==
  /\ pc = "parsing"
  /\ parse_item(parser).tag = "OkSome"
  /\ LET r == parse_item(parser)
     IN /\ items' = Append(items, Wrap(is_stmt, call.span, r.item))
        /\ diags' = diags \o [i \in 1..r.errs |-> ParseDiag]
        /\ err_count' = err_count + r.errs
  /\ parser' = [parser EXCEPT !.pos = @ + 1]
  /\ UNCHANGED <<pipeVars, proc_macro_cross_thread, pc, call, callNo, worker,
                 spawned, pipes, result, is_stmt, error_count_before, output,
                 returned>>

\* The turn that leaves the loop (Ok(None), or Err with err.emit()), the
\* check of the error count and the return of ExpandResult::Ready(items).
DeriveFinish ==
  /\ pc = "parsing"
  /\ parse_item(parser).tag # "OkSome"
  /\ LET hard == parse_item(parser).tag = "Err"
         d == IF hard THEN Append(diags, ParseDiag) ELSE diags
         n == IF hard THEN emit_count(err_count) ELSE err_count
     IN IF ErrorsEmitted(n, error_count_before)
          THEN /\ diags' = Append(d, UnparseableDiag(call.span))
               /\ err_count' = n + 1
          ELSE /\ diags' = d
               /\ err_count' = n
  /\ output' = Ready(items)
  /\ pc' = "done"
  /\ UNCHANGED <<pipeVars, proc_macro_cross_thread, call, callNo, worker,
                 spawned, pipes, result, is_stmt, error_count_before, parser,
                 items, returned>>

\* expand has returned; the session goes on to the next call site.
EndCall ==
  /\ pc = "done"
  /\ returned' = Append(returned, call.no)
  /\ pc' = "idle"
  /\ call' = NoCall
  /\ diags' = <<>>
  /\ result' = None
  /\ is_stmt' = FALSE
  /\ error_count_before' = 0
  /\ parser' = NoParser
  /\ items' = <<>>
  /\ output' = NoOutput
  /\ UNCHANGED <<pipeVars, proc_macro_cross_thread, callNo, worker, spawned,
                 pipes, err_count>>

Next ==
  \/ BangBegin
  \/ AttrBegin
  \/ DeriveBegin
  \/ RunSameThread
  \/ RunCrossSend
  \/ WorkerTake
  \/ WorkerQuery
  \/ WorkerResume
  \/ WorkerFinish
  \/ WorkerDies
  \/ CallerDispatch
  \/ CallerRecvResult
  \/ CallerRecvNone
  \/ BangReturn
  \/ AttrReturn
  \/ DeriveReturn
  \/ DeriveParseItem
  \/ DeriveFinish
  \/ EndCall

Spec == Init /\ [][Next]_vars

(* ======================== properties of the drivers ==================== *)
DriverDiags == SelectSeq(diags, LAMBDA d : d.origin = "driver")
ParserDiags == SelectSeq(diags, LAMBDA d : d.origin = "parser")
ServerDiagsSeen == SelectSeq(diags, LAMBDA d : d.origin = "server")

Done(kind) == pc = "done" /\ call.kind = kind

\* The reparse of stream s fails with a hard parse error at item k, the
\* k-1 elements before it being items that parse cleanly.
FailsAt(s, k) ==
  /\ k \in 1..Len(s)
  /\ s[k] = "bad"
  /\ \A j \in 1..(k - 1) : s[j] = "ok"

\* C1 (as claimed): when the stream returned to the derive driver fails to
\* parse at item K, exactly one parse diagnostic is emitted and the output
\* list holds no item: the K-1 items parsed before the error are discarded.
C1_ParseErrorDiscardsBatch ==
  (Done("Derive") /\ result.ok /\ \E k \in 1..MaxLen : FailsAt(result.stream, k))
    => /\ Len(ParserDiags) = 1
       /\ output = [tag |-> "Ready", items |-> <<>>]

MessagePrefix == <<"m", "e", "s", "s", "a", "g", "e", ":", " ">>

EmptyOutput(kind) ==
  IF kind = "Derive" THEN [tag |-> "Ready", items |-> <<>>] ELSE [tag |-> "Err"]

\* C2 (as claimed): when the call returns a panic payload with message M,
\* the driver emits exactly one diagnostic, whose help text equals M when M
\* is present and which has no help note when M is absent, and the call
\* produces no tokens or items.
C2_PanicHelpEqualsMessage ==
  (pc = "done" /\ ~result.ok)
    => /\ Len(DriverDiags) = 1
       /\ ParserDiags = <<>>
       /\ DriverDiags[1].help = result.msg
       /\ output = EmptyOutput(call.kind)

\* C2 (amended): when the call returns a panic payload with message M, the
\* driver emits exactly one diagnostic, at the call's span, with the
\* driver's panic text; its help note is "message: " followed by M when M
\* is present and it has no help note when M is absent; the call produces
\* no tokens or items (ErrorReported for Bang and Attr, an empty item list
\* for Derive).
C2_PanicOneDiagnostic ==
  (pc = "done" /\ ~result.ok)
    => /\ Len(DriverDiags) = 1
       /\ ParserDiags = <<>>
       /\ DriverDiags[1].span = call.span
       /\ DriverDiags[1].msg =
            (CASE call.kind = "Bang" -> "proc macro panicked"
               [] call.kind = "Attr" -> "custom attribute panicked"
               [] call.kind = "Derive" -> "proc-macro derive panicked")
       /\ DriverDiags[1].help =
            (IF result.msg = None THEN None
                                  ELSE Some(MessagePrefix \o result.msg[1]))
       /\ output = EmptyOutput(call.kind)

C2_Witness ==
  /\ Done("Derive") /\ ~result.ok /\ result.msg = Some(<<"x">>)
  /\ Len(DriverDiags) = 1

\* C3: when the call of a Bang or Attr driver succeeds with stream S,
\* expand returns exactly S, the stream the extension produced, and the
\* driver emits no diagnostic.
C3_SuccessReturnsStream ==
  (pc = "done" /\ call.kind \in {"Bang", "Attr"} /\ result.ok)
    => /\ call.ext.res.ok
       /\ output = [tag |-> "Ok", stream |-> call.ext.res.stream]
       /\ DriverDiags = <<>>
       /\ ParserDiags = <<>>

C3_Witness ==
  /\ Done("Attr") /\ result.ok /\ proc_macro_cross_thread
  /\ output = [tag |-> "Ok", stream |-> <<"ok", "bad">>]

\* Number of leading elements of s that parse cleanly into items.
RECURSIVE LeadingOk(_)
LeadingOk(s) ==
  IF s = <<>> \/ Head(s) # "ok" THEN 0 ELSE 1 + LeadingOk(Tail(s))

\* s reparses into items without any parse error: clean items up to the
\* end of the stream or up to a token that starts no item.
ParsesCleanly(s) ==
  LeadingOk(s) = Len(s) \/ s[LeadingOk(s) + 1] = "non"

\* C4: for an Item input whose returned stream reparses into N items with
\* no parse error, the output is exactly those N items in the order they
\* were parsed, each a bare Item, and the driver emits no diagnostic.
C4_ItemInputBareItems ==
  (Done("Derive") /\ call.item = "Item" /\ result.ok
     /\ ParsesCleanly(result.stream))
    => /\ output = [tag |-> "Ready",
                    items |-> [i \in 1..LeadingOk(result.stream) |->
                                 [variant |-> "Item", item |-> i]]]
       /\ DriverDiags = <<>>
       /\ ParserDiags = <<>>

C4_Witness ==
  /\ Done("Derive") /\ call.item = "Item" /\ result.ok
  /\ result.stream = <<"ok", "ok">>
  /\ Len(output.items) = 2

\* C5: for a Stmt input, is_stmt is recorded as true (and as false for an
\* Item input), and every item pushed and returned is a statement carrying
\* the span passed to expand; none is a bare Item.
C5_StmtInputRewrapped ==
  (call.kind = "Derive" /\ pc \in {"invoke", "wait", "returned", "parsing", "done"})
    => /\ is_stmt = (call.item = "Stmt")
       /\ call.item = "Stmt" =>
            /\ \A i \in 1..Len(items) :
                 items[i] = [variant |-> "Stmt", span |-> call.span,
                             item |-> i]
            /\ pc = "done" => output.items = items

C5_Witness ==
  /\ Done("Derive") /\ call.item = "Stmt" /\ call.no = 2
  /\ Len(output.items) = 2

(* ------------------- the pipe used freely by two owners ---------------- *)
PipeInit ==
  /\ chan = [c \in Channels |-> <<>>]
  /\ live = [e \in Endpoints |-> TRUE]
  /\ waiting = [e \in Endpoints |-> FALSE]
  /\ faulted = [e \in Endpoints |-> FALSE]
  /\ sent = [e \in Endpoints |-> <<>>]
  /\ rcvd = [e \in Endpoints |-> <<>>]
  /\ lastRecv = [e \in Endpoints |-> <<>>]
  /\ proc_macro_cross_thread = FALSE
  /\ DriverIdle

PipeSend(e, v) ==
  /\ live[e] /\ ~waiting[e]
  /\ Len(sent[e]) < MaxSends
  /\ sent' = [sent EXCEPT ![e] = Append(@, v)]
  /\ IF SendOk(live, e)
       THEN /\ chan' = send(chan, e, v)
            /\ UNCHANGED <<live, faulted>>
       ELSE \* unwrap() panics; unwinding drops the endpoint
            /\ faulted' = [faulted EXCEPT ![e] = TRUE]
            /\ live' = [live EXCEPT ![e] = FALSE]
            /\ UNCHANGED chan
  /\ UNCHANGED <<waiting, rcvd, lastRecv, driverVars>>

PipeRecvCall(e) ==
  /\ live[e] /\ ~waiting[e]
  /\ waiting' = [waiting EXCEPT ![e] = TRUE]
  /\ UNCHANGED <<chan, live, faulted, sent, rcvd, lastRecv, driverVars>>

PipeRecvReturn(e) ==
  /\ waiting[e]
  /\ RecvReady(chan, live, e)
  /\ lastRecv' = [lastRecv EXCEPT ![e] = <<recv(chan, e)>>]
  /\ rcvd' = [rcvd EXCEPT ![e] = @ \o recv(chan, e)]
  /\ chan' = RecvPop(chan, e)
  /\ waiting' = [waiting EXCEPT ![e] = FALSE]
  /\ UNCHANGED <<live, faulted, sent, driverVars>>

PipeDrop(e) ==
  /\ live[e] /\ ~waiting[e]
  /\ live' = [live EXCEPT ![e] = FALSE]
  /\ UNCHANGED <<chan, waiting, faulted, sent, rcvd, lastRecv, driverVars>>

PipeNext ==
  \E e \in Endpoints :
    \/ \E v \in Values : PipeSend(e, v)
    \/ PipeRecvCall(e)
    \/ PipeRecvReturn(e)
    \/ PipeDrop(e)

PipeSpec == PipeInit /\ [][PipeNext]_vars

\* A blocked receiver is a thread the scheduler runs once it is unblocked.
PipeFairSpec == PipeSpec /\ \A e \in Endpoints : WF_vars(PipeRecvReturn(e))
(* =================== properties of the execution strategy ============== *)
\* The bridge of the call in progress has not been disconnected.
BridgeUp == proc_macro_cross_thread => live["B"]

\* Where the reparse of s stops: the first hard error or token that starts
\* no item, or the end of the stream.
RECURSIVE StopPos(_, _)
StopPos(s, k) ==
  IF k > Len(s) \/ s[k] \in {"bad", "non"} THEN k ELSE StopPos(s, k + 1)

\* The diagnostics and the output of a call as a function of its kind, its
\* span, its input variant and what its extension does; the strategy is no
\* argument of it.
RefPanicDiag(c) ==
  [origin |-> "driver", span |-> c.span,
   msg |-> (CASE c.kind = "Bang" -> "proc macro panicked"
              [] c.kind = "Attr" -> "custom attribute panicked"
              [] c.kind = "Derive" -> "proc-macro derive panicked"),
   help |-> IF c.ext.res.msg = None THEN None
            ELSE Some(MessagePrefix \o c.ext.res.msg[1])]

RefParseDiags(s, span) ==
  LET k == StopPos(s, 1)
      errs == Cardinality({j \in 1..(k - 1) : s[j] = "rec"})
                + (IF k <= Len(s) /\ s[k] = "bad" THEN 1 ELSE 0)
  IN [i \in 1..errs |-> ParseDiag]
       \o (IF errs > 0 THEN <<UnparseableDiag(span)>> ELSE <<>>)

RefDiags(c) ==
  ServerDiags(c.ext.nErrs)
    \o (IF ~c.ext.res.ok THEN <<RefPanicDiag(c)>>
        ELSE IF c.kind = "Derive" THEN RefParseDiags(c.ext.res.stream, c.span)
        ELSE <<>>)

RefOutput(c) ==
  IF ~c.ext.res.ok THEN EmptyOutput(c.kind)
  ELSE IF c.kind = "Derive"
    THEN [tag |-> "Ready",
          items |-> [i \in 1..(StopPos(c.ext.res.stream, 1) - 1) |->
                       IF c.item = "Stmt"
                         THEN [variant |-> "Stmt", span |-> c.span, item |-> i]
                         ELSE [variant |-> "Item", item |-> i]]]
  ELSE [tag |-> "Ok", stream |-> c.ext.res.stream]

CrossCallStarted ==
  /\ proc_macro_cross_thread
  /\ returned # <<>> \/ pc \in {"wait", "returned", "parsing", "done"}

IsPrefix(a, b) == Len(a) <= Len(b) /\ SubSeq(b, 1, Len(a)) = a

\* The queue that carries what endpoint e sends: tx1 for A, tx2 for B.
InFlight(e) == chan[IF e = "A" THEN 1 ELSE 2]

\* C6: what the peer of e has received is a prefix of what was sent on e,
\* in the same order; while both endpoints are live, what was sent on e is
\* what the peer received followed by what is still queued (nothing lost,
\* duplicated or reordered).
C6_PipeFifo ==
  \A e \in Endpoints :
    /\ IsPrefix(rcvd[Peer(e)], sent[e])
    /\ (live["A"] /\ live["B"]) => sent[e] = rcvd[Peer(e)] \o InFlight(e)

C6_Witness ==
  /\ sent["A"] = <<1, 2>> /\ rcvd["B"] = <<1, 2>>
  /\ sent["B"] = <<2>> /\ rcvd["A"] = <<2>>

EndedByDisconnect ==
  /\ proc_macro_cross_thread /\ ~live["B"]
  /\ pc \in {"returned", "parsing", "done"}
  /\ worker.sentNo # call.no

\* The derive input is one the match of expand panics on.
Rejected(c) == c.item = "Other" \/ (c.item = "Stmt" /\ ~c.is_item)

C12_DeriveAlwaysReady ==
  /\ Done("Derive") =>
       /\ output.tag = "Ready"
       /\ output.items = (IF result.ok THEN items ELSE <<>>)
  /\ (call.kind = "Derive" /\ pc # "done") => output = NoOutput

C12_Witness ==
  /\ Done("Derive") /\ result.ok
  /\ parse_item(parser).tag = "Err"
  /\ output = [tag |-> "Ready", items |-> items] /\ Len(items) = 1

\* The summary diagnostics of the call in progress.
Summaries == SelectSeq(diags, LAMBDA d : d = UnparseableDiag(call.span))

\* C13: after a successful extension call the summary "proc-macro derive
\* produced unparseable tokens" is emitted, at the call's span, exactly
\* when the error count after the reparse loop is greater than the count
\* snapshotted before it; it is emitted at most once however many errors
\* the loop counted, as the last diagnostic of the call, and it is the only
\* diagnostic of the driver.
C13_SummaryIffCountRose ==
  (Done("Derive") /\ result.ok) =>
    LET after == err_count - Len(Summaries)
    IN /\ after = error_count_before + Len(ParserDiags)
       /\ Len(Summaries) = (IF after > error_count_before THEN 1 ELSE 0)
       /\ DriverDiags = Summaries
       /\ Summaries # <<>> => diags[Len(diags)] = UnparseableDiag(call.span)

C13_Witness ==
  /\ Done("Derive") /\ result.ok
  /\ Len(ParserDiags) = 2
  /\ err_count = error_count_before + 3
  /\ Len(Summaries) = 1

\* C14 (as claimed): a driver call that fails (extension panic, bridge
\* disconnect, output parse error, residual parse errors) yields no item
\* and no token and emits one or two diagnostics; whenever the derive
\* driver emits a diagnostic for a call, the item list it returns is empty.
C14_FailedCallYieldsNothing ==
  (pc = "done" /\ (DriverDiags # <<>> \/ ParserDiags # <<>>)) =>
    /\ output = EmptyOutput(call.kind)
    /\ Len(DriverDiags) + Len(ParserDiags) \in {1, 2}

(* =================== properties of input normalization ================= *)
\* C15: an Annotatable that is neither an Item nor a Statement, or a
\* Statement that does not wrap an item, makes the derive driver abort
\* while it normalizes its input: the extension is not invoked, no
\* diagnostic is emitted and no item list is returned. The extension is
\* invoked only for an Item or for a Statement that wraps an item.
C15_RejectedInputAborts ==
  call.kind = "Derive" =>
    /\ Rejected(call) =>
         /\ pc = "aborted"
         /\ diags = <<>> /\ output = NoOutput /\ result = None
         /\ worker.no # call.no
    /\ pc \in {"invoke", "wait", "returned", "parsing", "done"} =>
         \/ call.item = "Item"
         \/ call.item = "Stmt" /\ call.is_item
    /\ is_stmt = (call.item = "Stmt")

C15_Witness ==
  /\ pc = "aborted" /\ call.kind = "Derive" /\ call.no = 2
  /\ call.item = "Stmt" /\ ~call.is_item /\ is_stmt
  /\ returned = <<1>> /\ output = NoOutput

(* ========================= properties of send ========================== *)
\* C16: send(value) never blocks: an endpoint that is not inside another
\* call can always complete a send, however many values are queued and
\* unreceived. A send with the peer live enqueues its value and returns;
\* a send on an endpoint whose peer has been dropped aborts as a fault:
\* the value is not enqueued, and the endpoint does nothing afterwards
\* (no error value is returned to continue with).
C16_SendNeverBlocksFaultsOnClosedPeer ==
  /\ [](\A e \in Endpoints :
          /\ (live[e] /\ ~waiting[e] /\ Len(sent[e]) < MaxSends) =>
               ENABLED (\E v \in Values : PipeSend(e, v))
          /\ faulted[e] => ~live[e] /\ ~live[Peer(e)])
  /\ [][\A e \in Endpoints :
          /\ sent'[e] # sent[e] =>
               LET v == sent'[e][Len(sent'[e])]
               IN IF live[Peer(e)]
                    THEN /\ InFlight(e)' = Append(InFlight(e), v)
                         /\ live'[e] /\ ~faulted'[e]
                    ELSE /\ chan' = chan
                         /\ faulted'[e] /\ ~live'[e]
          /\ faulted[e] =>
               /\ sent'[e] = sent[e] /\ rcvd'[e] = rcvd[e]
               /\ faulted'[e]]_vars

C16_Witness ==
  /\ faulted["A"] /\ ~live["A"] /\ ~live["B"]
  /\ Len(InFlight("B")) = MaxSends /\ rcvd["A"] = <<>>
  /\ Len(sent["A"]) = 1 /\ InFlight("A") = <<>>

\* C17: the two directions of a pipe pair are independent queues. A send
\* on endpoint e touches only the queue bound for its peer: the queue bound
\* for e and everything received so far stay as they were. A recv on e
\* takes the head of the queue bound for e, which holds only what the peer
\* sent, and leaves the queue bound for the peer unchanged; so a value sent
\* on e is never returned by a recv on e.
C17_DirectionsIndependent ==
  [][\A e \in Endpoints :
       /\ sent'[e] # sent[e] =>
            /\ InFlight(Peer(e))' = InFlight(Peer(e))
            /\ rcvd' = rcvd
       /\ (waiting[e] /\ ~waiting'[e]) =>
            /\ InFlight(e)' = InFlight(e)
            /\ sent' = sent
            /\ InFlight(Peer(e)) # <<>> =>
                 /\ rcvd'[e] = Append(rcvd[e], Head(InFlight(Peer(e))))
                 /\ InFlight(Peer(e))' = Tail(InFlight(Peer(e)))
            /\ InFlight(Peer(e)) = <<>> =>
                 /\ rcvd'[e] = rcvd[e]
                 /\ chan' = chan]_vars

C17_Witness ==
  /\ sent["A"] = <<1>> /\ sent["B"] = <<2>>
  /\ rcvd["A"] = <<2>> /\ rcvd["B"] = <<>>
  /\ InFlight("A") = <<1>> /\ InFlight("B") = <<>>

(* ==================== properties of the error count ==================== *)
\* C18: the derive driver snapshots the error count after the extension
\* call has returned and before the first parse_item: during the loop the
\* count is the snapshot plus the errors of the parser alone, so the errors
\* the extension reported through the server during the call, and those of
\* earlier calls, are inside the snapshot and never cause the summary;
\* the summary is emitted only if the reparse loop recorded an error.
C18_SnapshotAfterCall ==
  call.kind = "Derive" =>
    /\ pc = "parsing" =>
         /\ err_count = error_count_before + Len(ParserDiags)
         /\ error_count_before >= Len(ServerDiagsSeen)
         /\ DriverDiags = <<>>
    /\ (pc = "done" /\ result.ok) =>
         /\ error_count_before >= Len(ServerDiagsSeen)
         /\ Summaries # <<>> => ParserDiags # <<>>

C18_Witness ==
  /\ Done("Derive") /\ result.ok /\ call.no = 2
  /\ Len(ServerDiagsSeen) = 1 /\ error_count_before >= 2
  /\ ParserDiags = <<>> /\ DriverDiags = <<>>
  /\ Len(output.items) = 2

\* The diagnostics of the call that the driver and its parser emitted.
ReparseDiags == SelectSeq(diags, LAMBDA d : d.origin # "server")

\* The reparse loop of the call in progress stopped on a hard parse error.
HardStop == Done("Derive") /\ result.ok /\ parse_item(parser).tag = "Err"

====
